---- MODULE Spec2Model ----
(***************************************************************************)
(* A model of cosmium's HTTP surface: the route table and middleware chain *)
(* built by ApiServer.CreateRouter, the dispatch of a request through it,  *)
(* the data store behind the handlers, and the listener lifecycle of       *)
(* ApiServer.Start (serve goroutine, shutdown goroutine, 50 ms select).    *)
(*                                                                         *)
(* Paths are sequences of segments: "/" is << >>, "/dbs/d1" is             *)
(* <<"dbs","d1">>, and a trailing slash is a last empty segment, so        *)
(* "/dbs/" is <<"dbs","">>.                                                *)
(***************************************************************************)
EXTENDS Integers, Sequences, FiniteSets, TLC

VARIABLES
    config,            \* ServerConfig: LogLevel, AccountKey, DisableTls, TLS_*
    router,            \* s.router: the engine CreateRouter built
    req,               \* in-flight HTTP requests, one per connection slot
    store,             \* the data store behind the handlers
    tomb,              \* history: entities removed by a DELETE /dbs/:db cascade
    consumed,          \* history: per _etag, the mutations that advanced it
    isActive,          \* s.isActive
    startPc,           \* position of the goroutine running Start
    startRet,          \* what Start returned
    branch,            \* the select branch Start took
    errPending,        \* history: an error was in errChan when the branch was taken
    errChan,           \* errChan, a buffered channel
    timerFired,        \* time.After(50ms) has fired
    shutPc,            \* position of the shutdown goroutine (lines 101-109)
    servePc,           \* position of the serve goroutine (lines 111-136)
    serveErr,          \* what the listener call returned
    listenMode,        \* which ListenAndServe variant was called
    tlsConfigSet,      \* server.TLSConfig was set from the TLS materials provider
    listener,          \* the http.Server's listener
    inShutdown,        \* the http.Server's inShutdown flag
    inFlight,          \* connections with a handler in flight
    hung,              \* those whose handler never finishes
    stopServer,        \* stop signals offered on s.stopServer, not yet received
    stopsSent,         \* history: stop signals sent so far
    stopsReceived,     \* history: stop signals the shutdown goroutine received
    onServerShutdown,  \* notifications offered on s.onServerShutdown
    notified           \* notifications the supervisor has received

httpVars == <<req, store, tomb, consumed>>
startVars == <<isActive, startPc, startRet, branch, errPending, errChan, timerFired,
               shutPc, servePc, serveErr, listenMode, tlsConfigSet, listener,
               inShutdown, inFlight, hung, stopServer, stopsSent, stopsReceived,
               onServerShutdown, notified>>
vars == <<config, router, httpVars, startVars>>

----------------------------------------------------------------------------
(* Bounds of the model *)

\* connection slots handling requests concurrently
MaxInFlight == 2
\* values the store's _etag counter takes before mutations stop
MaxEtag == 3
\* connections the listener serves at once
MaxConns == 2
\* stop signals the supervisor sends
MaxStops == 2

----------------------------------------------------------------------------
(* Requests *)

Methods == {"GET", "POST", "PUT", "PATCH", "DELETE"}

DbIds == {"d1"}
CollIds == {"c1"}
DocIds == {"x"}
ScriptIds == {"s1"}

ParamNames == {":databaseId", ":collId", ":docId", ":triggerId", ":sprocId", ":udfId"}

IsParam(seg) == seg \in ParamNames

ParamValues(p) ==
    CASE p = ":databaseId" -> DbIds
      [] p = ":collId" -> CollIds
      [] p = ":docId" -> DocIds
      [] OTHER -> ScriptIds

HasTrailingSlash(path) == Len(path) >= 1 /\ path[Len(path)] = ""

StripSlash(path) == SubSeq(path, 1, Len(path) - 1)

EmulatorKey == "emulator-key"

AuthValues == {"account-key", EmulatorKey, "wrong-key"}

----------------------------------------------------------------------------
(* ApiServer.CreateRouter: the engine, its middleware and its routes *)

Reg(method, tmpl, handler) == [method |-> method, tmpl |-> tmpl, handler |-> handler]

CollPath == <<"dbs", ":databaseId", "colls", ":collId">>

\* the option function handed to gin.Default
RedirectTrailingSlash_GinDefault == TRUE

RedirectTrailingSlash == FALSE

\* gin.Default: an engine with Logger and Recovery attached and an empty tree per method
GinDefault ==
    [handlers |-> <<"Logger", "Recovery">>,
     trees |-> [m \in Methods |-> {}],
     allNoRoute |-> <<"Logger", "Recovery">>,
     RedirectTrailingSlash |-> RedirectTrailingSlash]

\* router.Use(mw): later registrations, and the no-route chain, run mw
Use(engine, mw) ==
    [engine EXCEPT !.handlers = @ \o <<mw>>, !.allNoRoute = engine.handlers \o <<mw>>]

\* router.GET/POST/...: the route's chain is the middleware attached so far, then the handler
Handle(engine, r) ==
    [engine EXCEPT !.trees[r.method] = @ \cup
        {[method |-> r.method, tmpl |-> r.tmpl, handler |-> r.handler,
          chain |-> engine.handlers \o <<r.handler>>]}]

PartitionKeyRangeRoutes ==
    << Reg("GET", CollPath \o <<"pkranges">>, "GetPartitionKeyRanges") >>

DocumentRoutes ==
    << Reg("POST", CollPath \o <<"docs">>, "DocumentsPost"),
       Reg("GET", CollPath \o <<"docs">>, "GetAllDocuments"),
       Reg("GET", CollPath \o <<"docs", ":docId">>, "GetDocument"),
       Reg("PUT", CollPath \o <<"docs", ":docId">>, "ReplaceDocument"),
       Reg("PATCH", CollPath \o <<"docs", ":docId">>, "PatchDocument"),
       Reg("DELETE", CollPath \o <<"docs", ":docId">>, "DeleteDocument") >>

CollectionRoutes ==
    << Reg("POST", <<"dbs", ":databaseId", "colls">>, "CreateCollection"),
       Reg("GET", <<"dbs", ":databaseId", "colls">>, "GetAllCollections"),
       Reg("GET", CollPath, "GetCollection"),
       Reg("DELETE", CollPath, "DeleteCollection") >>

DatabaseRoutes ==
    << Reg("POST", <<"dbs">>, "CreateDatabase"),
       Reg("GET", <<"dbs">>, "GetAllDatabases"),
       Reg("GET", <<"dbs", ":databaseId">>, "GetDatabase"),
       Reg("DELETE", <<"dbs", ":databaseId">>, "DeleteDatabase") >>

\* trigger routes copied from the document routes with the PATCH line kept
TriggerRoutes_WithPatch ==
    << Reg("POST", CollPath \o <<"triggers">>, "CreateTrigger"),
       Reg("GET", CollPath \o <<"triggers">>, "GetAllTriggers"),
       Reg("GET", CollPath \o <<"triggers", ":triggerId">>, "GetTrigger"),
       Reg("PUT", CollPath \o <<"triggers", ":triggerId">>, "ReplaceTrigger"),
       Reg("PATCH", CollPath \o <<"triggers", ":triggerId">>, "ReplaceTrigger"),
       Reg("DELETE", CollPath \o <<"triggers", ":triggerId">>, "DeleteTrigger") >>

TriggerRoutes ==
    << Reg("POST", CollPath \o <<"triggers">>, "CreateTrigger"),
       Reg("GET", CollPath \o <<"triggers">>, "GetAllTriggers"),
       Reg("GET", CollPath \o <<"triggers", ":triggerId">>, "GetTrigger"),
       Reg("PUT", CollPath \o <<"triggers", ":triggerId">>, "ReplaceTrigger"),
       Reg("DELETE", CollPath \o <<"triggers", ":triggerId">>, "DeleteTrigger") >>

StoredProcedureRoutes ==
    << Reg("POST", CollPath \o <<"sprocs">>, "CreateStoredProcedure"),
       Reg("GET", CollPath \o <<"sprocs">>, "GetAllStoredProcedures"),
       Reg("GET", CollPath \o <<"sprocs", ":sprocId">>, "GetStoredProcedure"),
       Reg("PUT", CollPath \o <<"sprocs", ":sprocId">>, "ReplaceStoredProcedure"),
       Reg("DELETE", CollPath \o <<"sprocs", ":sprocId">>, "DeleteStoredProcedure") >>

UserDefinedFunctionRoutes ==
    << Reg("POST", CollPath \o <<"udfs">>, "CreateUserDefinedFunction"),
       Reg("GET", CollPath \o <<"udfs">>, "GetAllUserDefinedFunctions"),
       Reg("GET", CollPath \o <<"udfs", ":udfId">>, "GetUserDefinedFunction"),
       Reg("PUT", CollPath \o <<"udfs", ":udfId">>, "ReplaceUserDefinedFunction"),
       Reg("DELETE", CollPath \o <<"udfs", ":udfId">>, "DeleteUserDefinedFunction") >>

ServerRoutes ==
    << Reg("GET", <<"offers">>, "GetOffers"),
       Reg("GET", << >>, "GetServerInfo"),
       Reg("GET", <<"cosmium", "export">>, "CosmiumExport") >>

\* the routes in the order CreateRouter registers them
RouteRegistrations ==
    PartitionKeyRangeRoutes \o DocumentRoutes \o CollectionRoutes \o DatabaseRoutes
        \o TriggerRoutes \o StoredProcedureRoutes \o UserDefinedFunctionRoutes
        \o ServerRoutes

\* routeHandlers.RegisterExplorerHandlers(router): the explorer's static routes
ExplorerRegistrations ==
    << Reg("GET", <<"_explorer", "index.html">>, "Explorer") >>

RECURSIVE HandleAll(_, _)
HandleAll(engine, regs) ==
    IF regs = << >> THEN engine
    ELSE HandleAll(Handle(engine, Head(regs)), Tail(regs))

RECURSIVE UseAll(_, _)
UseAll(engine, mws) ==
    IF mws = << >> THEN engine
    ELSE UseAll(Use(engine, Head(mws)), Tail(mws))

\* the middleware CreateRouter attaches, in the order of its router.Use calls
Middleware(cfg) ==
    (IF cfg.LogLevel = "debug" THEN <<"RequestLogger">> ELSE << >>)
        \o <<"StripTrailingSlashes", "Authentication">>

\* a CreateRouter that attaches Authentication only after the routes are registered
CreateRouter_AuthAfterRoutes(cfg) ==
    UseAll(HandleAll(HandleAll(UseAll(GinDefault,
                (IF cfg.LogLevel = "debug" THEN <<"RequestLogger">> ELSE << >>)
                    \o <<"StripTrailingSlashes">>),
            RouteRegistrations), ExplorerRegistrations),
        <<"Authentication">>)

CreateRouter(cfg) ==
    HandleAll(HandleAll(UseAll(GinDefault, Middleware(cfg)), RouteRegistrations),
              ExplorerRegistrations)

----------------------------------------------------------------------------
(* Dispatch of one request through the engine *)

SegMatch(tmpl, path) ==
    /\ Len(tmpl) = Len(path)
    /\ \A k \in 1..Len(tmpl) :
          IF IsParam(tmpl[k]) THEN path[k] # "" ELSE tmpl[k] = path[k]

NParams(tmpl) == Cardinality({k \in 1..Len(tmpl) : IsParam(tmpl[k])})

\* the routes of the method's tree that match the path
Candidates(engine, method, path) ==
    {r \in engine.trees[method] : SegMatch(r.tmpl, path)}

\* the engine's trailing-slash recommendation: the path with the slash toggled has a route
Tsr(engine, method, path) ==
    IF HasTrailingSlash(path)
    THEN Candidates(engine, method, StripSlash(path)) # {}
    ELSE Candidates(engine, method, path \o <<"">>) # {}

\* middleware.Authentication: the configured key or the emulator key
AuthOk(cfg, auth) ==
    \/ auth = EmulatorKey
    \/ cfg.AccountKey # "" /\ auth = cfg.AccountKey

NoHandler == "none"

Ctx0(method, path, auth) ==
    [method |-> method, path |-> path, auth |-> auth, status |-> 0,
     handler |-> NoHandler, tmpl |-> << >>, ran |-> << >>,
     rewritten |-> FALSE, redirected |-> FALSE, matchedAsIs |-> FALSE]

RECURSIVE Dispatch(_, _, _, _)
RECURSIVE RunChain(_, _, _, _, _)

\* the handlers of a chain from position k on; a middleware that does not call
\* Next, or that aborts, ends the chain
RunChain(engine, cfg, chain, k, c) ==
    IF k > Len(chain) THEN c
    ELSE LET h == chain[k]
             c1 == [c EXCEPT !.ran = @ \o <<h>>]
         IN  CASE h \in {"Logger", "Recovery", "RequestLogger"} ->
                    RunChain(engine, cfg, chain, k + 1, c1)
               [] h = "StripTrailingSlashes" ->
                    IF HasTrailingSlash(c.path)
                    THEN Dispatch(engine, cfg,
                                  [c1 EXCEPT !.path = StripSlash(c.path), !.status = 0],
                                  TRUE)
                    ELSE RunChain(engine, cfg, chain, k + 1, c1)
               [] h = "Authentication" ->
                    IF AuthOk(cfg, c.auth)
                    THEN RunChain(engine, cfg, chain, k + 1, c1)
                    ELSE [c1 EXCEPT !.status = 401]
               [] OTHER -> [c EXCEPT !.handler = h]

\* engine.handleHTTPRequest; again is TRUE when entered through HandleContext
Dispatch(engine, cfg, c, again) ==
    LET cands == Candidates(engine, c.method, c.path)
    IN  IF cands # {}
        THEN LET \* a static segment wins over a path variable
                 r == CHOOSE x \in cands :
                          \A q \in cands : NParams(x.tmpl) <= NParams(q.tmpl)
             IN  RunChain(engine, cfg, r.chain, 1,
                          [c EXCEPT !.tmpl = r.tmpl, !.rewritten = again,
                                    !.matchedAsIs = IF again THEN @ ELSE TRUE])
        ELSE IF c.path # << >> /\ engine.RedirectTrailingSlash
                /\ Tsr(engine, c.method, c.path)
        THEN [c EXCEPT !.status = IF c.method = "GET" THEN 301 ELSE 307,
                       !.redirected = TRUE, !.rewritten = again]
        ELSE RunChain(engine, cfg, engine.allNoRoute, 1,
                      [c EXCEPT !.status = 404, !.rewritten = again])

\* http.Handler of the engine: what reaches the handler, or the response without one
ServeHTTP(engine, cfg, method, path, auth) ==
    Dispatch(engine, cfg, Ctx0(method, path, auth), FALSE)

Param(c, name) ==
    IF \E k \in 1..Len(c.tmpl) : c.tmpl[k] = name
    THEN c.path[CHOOSE k \in 1..Len(c.tmpl) : c.tmpl[k] = name]
    ELSE ""

----------------------------------------------------------------------------
(* The data store and the handlers' operations on it.  Every operation runs *)
(* under the single store-wide lock, so each is one atomic step.           *)

NoDoc == [etag |-> 0, body |-> ""]

Bodies == {"a", "b"}

ScriptKinds == {"triggers", "sprocs", "udfs"}

DocKeys == DbIds \X CollIds \X DocIds

EmptyStore ==
    [dbs |-> {}, colls |-> {}, docs |-> [k \in DocKeys |-> NoDoc], scripts |-> {},
     etag |-> 0]

\* entities are <<kind, database, collection, id>>
DbEntity(db) == <<"dbs", db, "", "">>
CollEntity(db, coll) == <<"colls", db, coll, "">>
DocEntity(db, coll, id) == <<"docs", db, coll, id>>

Entities ==
    {DbEntity(d) : d \in DbIds}
        \cup {CollEntity(d, c) : d \in DbIds, c \in CollIds}
        \cup {DocEntity(k[1], k[2], k[3]) : k \in DocKeys}
        \cup (ScriptKinds \X DbIds \X CollIds \X ScriptIds)

Exists(st, e) ==
    CASE e[1] = "dbs" -> e[2] \in st.dbs
      [] e[1] = "colls" -> <<e[2], e[3]>> \in st.colls
      [] e[1] = "docs" -> <<e[2], e[3], e[4]>> \in DocKeys /\ st.docs[<<e[2], e[3], e[4]>>] # NoDoc
      [] OTHER -> e \in st.scripts

Under(e, db) == e[2] = db

Result(st, status, etag) == [store |-> st, status |-> status, etag |-> etag]

\* a write that does not look at If-Match
IfMatchOk_Ignored(ifMatch, etag) == TRUE

\* If-Match compares the raw _etag; an absent header (0) asserts nothing
IfMatchOk(ifMatch, etag) == ifMatch = 0 \/ ifMatch = etag

CreateDatabase(st, id) ==
    IF id \in st.dbs THEN Result(st, 409, 0)
    ELSE Result([st EXCEPT !.dbs = @ \cup {id}], 201, 0)

\* a delete that removes the database entry and leaves its collections behind
DeleteDatabase_NoCascade(st, db) ==
    IF db \notin st.dbs THEN Result(st, 404, 0)
    ELSE Result([st EXCEPT !.dbs = @ \ {db}], 204, 0)

DeleteDatabase(st, db) ==
    IF db \notin st.dbs THEN Result(st, 404, 0)
    ELSE Result([st EXCEPT
                    !.dbs = @ \ {db},
                    !.colls = {c \in @ : c[1] # db},
                    !.docs = [k \in DocKeys |-> IF k[1] = db THEN NoDoc ELSE @[k]],
                    !.scripts = {e \in @ : e[2] # db}], 204, 0)

CreateCollection(st, db, id) ==
    IF db \notin st.dbs THEN Result(st, 404, 0)
    ELSE IF <<db, id>> \in st.colls THEN Result(st, 409, 0)
    ELSE Result([st EXCEPT !.colls = @ \cup {<<db, id>>}], 201, 0)

DeleteCollection(st, db, coll) ==
    IF ~Exists(st, CollEntity(db, coll)) \/ db \notin st.dbs THEN Result(st, 404, 0)
    ELSE Result([st EXCEPT
                    !.colls = @ \ {<<db, coll>>},
                    !.docs = [k \in DocKeys |->
                                 IF k[1] = db /\ k[2] = coll THEN NoDoc ELSE @[k]],
                    !.scripts = {e \in @ : ~(e[2] = db /\ e[3] = coll)}], 204, 0)

CollExists(st, db, coll) == db \in st.dbs /\ <<db, coll>> \in st.colls

DocExists(st, db, coll, id) ==
    CollExists(st, db, coll) /\ Exists(st, DocEntity(db, coll, id))

CreateDocument(st, db, coll, id, body) ==
    IF ~CollExists(st, db, coll) \/ <<db, coll, id>> \notin DocKeys THEN Result(st, 404, 0)
    ELSE IF DocExists(st, db, coll, id) THEN Result(st, 409, 0)
    ELSE Result([st EXCEPT !.docs[<<db, coll, id>>] = [etag |-> st.etag + 1, body |-> body],
                           !.etag = @ + 1], 201, st.etag + 1)

ReplaceDocument(st, db, coll, id, body, ifMatch) ==
    IF ~DocExists(st, db, coll, id) THEN Result(st, 404, 0)
    ELSE IF ~IfMatchOk(ifMatch, st.docs[<<db, coll, id>>].etag) THEN Result(st, 412, 0)
    ELSE Result([st EXCEPT !.docs[<<db, coll, id>>] = [etag |-> st.etag + 1, body |-> body],
                           !.etag = @ + 1], 200, st.etag + 1)

\* a patch whose operations set the document's content to the body's value
PatchDocument(st, db, coll, id, body, ifMatch) ==
    ReplaceDocument(st, db, coll, id, body, ifMatch)

DeleteDocument(st, db, coll, id, ifMatch) ==
    IF ~DocExists(st, db, coll, id) THEN Result(st, 404, 0)
    ELSE IF ~IfMatchOk(ifMatch, st.docs[<<db, coll, id>>].etag) THEN Result(st, 412, 0)
    ELSE Result([st EXCEPT !.docs[<<db, coll, id>>] = NoDoc], 204, 0)

ReadDocument(st, db, coll, id) ==
    IF DocExists(st, db, coll, id)
    THEN Result(st, 200, st.docs[<<db, coll, id>>].etag)
    ELSE Result(st, 404, 0)

ScriptExists(st, kind, db, coll, id) ==
    CollExists(st, db, coll) /\ <<kind, db, coll, id>> \in st.scripts

CreateScript(st, kind, db, coll, id) ==
    IF ~CollExists(st, db, coll) THEN Result(st, 404, 0)
    ELSE IF ScriptExists(st, kind, db, coll, id) THEN Result(st, 409, 0)
    ELSE Result([st EXCEPT !.scripts = @ \cup {<<kind, db, coll, id>>}], 201, 0)

ReplaceScript(st, kind, db, coll, id) ==
    IF ScriptExists(st, kind, db, coll, id) THEN Result(st, 200, 0) ELSE Result(st, 404, 0)

DeleteScript(st, kind, db, coll, id) ==
    IF ~ScriptExists(st, kind, db, coll, id) THEN Result(st, 404, 0)
    ELSE Result([st EXCEPT !.scripts = @ \ {<<kind, db, coll, id>>}], 204, 0)

Found(b) == IF b THEN 200 ELSE 404

\* the handler's call on the store and the status its result maps to
Invoke(h, st, c, r) ==
    LET db == Param(c, ":databaseId")
        coll == Param(c, ":collId")
    IN  CASE h = "CreateDatabase" -> CreateDatabase(st, r.bodyId)
          [] h = "GetAllDatabases" -> Result(st, 200, 0)
          [] h = "GetDatabase" -> Result(st, Found(db \in st.dbs), 0)
          [] h = "DeleteDatabase" -> DeleteDatabase(st, db)
          [] h = "CreateCollection" -> CreateCollection(st, db, r.bodyId)
          [] h = "GetAllCollections" -> Result(st, Found(db \in st.dbs), 0)
          [] h = "GetCollection" -> Result(st, Found(CollExists(st, db, coll)), 0)
          [] h = "DeleteCollection" -> DeleteCollection(st, db, coll)
          [] h = "GetPartitionKeyRanges" -> Result(st, Found(CollExists(st, db, coll)), 0)
          [] h = "DocumentsPost" -> CreateDocument(st, db, coll, r.bodyId, r.body)
          [] h = "GetAllDocuments" -> Result(st, Found(CollExists(st, db, coll)), 0)
          [] h = "GetDocument" -> ReadDocument(st, db, coll, Param(c, ":docId"))
          [] h = "ReplaceDocument" ->
                ReplaceDocument(st, db, coll, Param(c, ":docId"), r.body, r.ifMatch)
          [] h = "PatchDocument" ->
                PatchDocument(st, db, coll, Param(c, ":docId"), r.body, r.ifMatch)
          [] h = "DeleteDocument" ->
                DeleteDocument(st, db, coll, Param(c, ":docId"), r.ifMatch)
          [] h = "CreateTrigger" -> CreateScript(st, "triggers", db, coll, r.bodyId)
          [] h = "GetAllTriggers" -> Result(st, Found(CollExists(st, db, coll)), 0)
          [] h = "GetTrigger" ->
                Result(st, Found(ScriptExists(st, "triggers", db, coll, Param(c, ":triggerId"))), 0)
          [] h = "ReplaceTrigger" -> ReplaceScript(st, "triggers", db, coll, Param(c, ":triggerId"))
          [] h = "DeleteTrigger" -> DeleteScript(st, "triggers", db, coll, Param(c, ":triggerId"))
          [] h = "CreateStoredProcedure" -> CreateScript(st, "sprocs", db, coll, r.bodyId)
          [] h = "GetAllStoredProcedures" -> Result(st, Found(CollExists(st, db, coll)), 0)
          [] h = "GetStoredProcedure" ->
                Result(st, Found(ScriptExists(st, "sprocs", db, coll, Param(c, ":sprocId"))), 0)
          [] h = "ReplaceStoredProcedure" ->
                ReplaceScript(st, "sprocs", db, coll, Param(c, ":sprocId"))
          [] h = "DeleteStoredProcedure" ->
                DeleteScript(st, "sprocs", db, coll, Param(c, ":sprocId"))
          [] h = "CreateUserDefinedFunction" -> CreateScript(st, "udfs", db, coll, r.bodyId)
          [] h = "GetAllUserDefinedFunctions" -> Result(st, Found(CollExists(st, db, coll)), 0)
          [] h = "GetUserDefinedFunction" ->
                Result(st, Found(ScriptExists(st, "udfs", db, coll, Param(c, ":udfId"))), 0)
          [] h = "ReplaceUserDefinedFunction" ->
                ReplaceScript(st, "udfs", db, coll, Param(c, ":udfId"))
          [] h = "DeleteUserDefinedFunction" ->
                DeleteScript(st, "udfs", db, coll, Param(c, ":udfId"))
          [] OTHER -> Result(st, 200, 0)

\* the handlers that never touch the store
StaticHandlers == {"GetOffers", "GetServerInfo", "Explorer"}

----------------------------------------------------------------------------
(* Requests the clients send *)

\* a template with each path variable replaced by an id of its kind
Instance(tmpl) ==
    [k \in 1..Len(tmpl) |->
        IF IsParam(tmpl[k]) THEN CHOOSE v \in ParamValues(tmpl[k]) : TRUE ELSE tmpl[k]]

Range(f) == {f[k] : k \in DOMAIN f}

RoutePaths == {Instance(r.tmpl) : r \in Range(RouteRegistrations \o ExplorerRegistrations)}

\* paths no route is registered for
OtherPaths == {<<"dbs", "d1", "users">>, <<"nothing">>}

RequestPaths ==
    RoutePaths \cup OtherPaths
        \cup {p \o <<"">> : p \in (RoutePaths \cup OtherPaths) \ {<< >>}}

\* the id a POST body carries: an id of the kind the path's collection holds
BodyIdFor(path) ==
    LET q == IF HasTrailingSlash(path) THEN StripSlash(path) ELSE path
        last == IF q = << >> THEN "" ELSE q[Len(q)]
    IN  CASE last = "dbs" -> CHOOSE v \in DbIds : TRUE
          [] last = "colls" -> CHOOSE v \in CollIds : TRUE
          [] last = "docs" -> CHOOSE v \in DocIds : TRUE
          [] OTHER -> CHOOSE v \in ScriptIds : TRUE

Request(method, path, auth, body, ifMatch) ==
    [method |-> method, path |-> path, auth |-> auth, body |-> body,
     bodyId |-> BodyIdFor(path), ifMatch |-> ifMatch]

\* every method on every path with every Authorization value
AllRequests ==
    {Request(m, p, a, "a", 0) : m \in Methods, p \in RequestPaths, a \in AuthValues}

\* every method on every registered path, with an accepted key
StoreRequests ==
    {Request(m, p, EmulatorKey, "a", 0) : m \in Methods, p \in RoutePaths}

DocPath == Instance(CollPath \o <<"docs", ":docId">>)

\* conditional replaces of one document, with fresh and stale If-Match values
DocumentWrites ==
    {Request("PUT", DocPath, EmulatorKey, b, e) : b \in Bodies, e \in 1..MaxEtag}

Slots == 1..MaxInFlight

IdleRequest ==
    [phase |-> "idle", method |-> "", path |-> << >>, auth |-> "", body |-> "",
     bodyId |-> "", ifMatch |-> 0, ctx |-> Ctx0("", << >>, ""), status |-> 0,
     etag |-> 0, changed |-> FALSE, fresh |-> FALSE, storeCalls |-> 0]

\* the document a request's path names, NoDoc when it names none that exists
TargetDoc(st, c) ==
    LET k == <<Param(c, ":databaseId"), Param(c, ":collId"), Param(c, ":docId")>>
    IN  IF k \in DocKeys /\ DocExists(st, k[1], k[2], k[3]) THEN st.docs[k] ELSE NoDoc

\* the entity a successful create adds
Created(h, c, r) ==
    LET db == Param(c, ":databaseId")
        coll == Param(c, ":collId")
    IN  CASE h = "CreateDatabase" -> DbEntity(r.bodyId)
          [] h = "CreateCollection" -> CollEntity(db, r.bodyId)
          [] h = "DocumentsPost" -> DocEntity(db, coll, r.bodyId)
          [] h = "CreateTrigger" -> <<"triggers", db, coll, r.bodyId>>
          [] h = "CreateStoredProcedure" -> <<"sprocs", db, coll, r.bodyId>>
          [] OTHER -> <<"udfs", db, coll, r.bodyId>>

----------------------------------------------------------------------------
(* The life of a request: the engine dispatches it through the middleware, *)
(* the route's handler runs against the store, the response is written.    *)

\* a request arrives on slot i and the engine runs its chain up to the handler
Arrive(i, r) ==
    /\ req[i].phase = "idle"
    /\ LET c == ServeHTTP(router, config, r.method, r.path, r.auth)
       IN  req' = [req EXCEPT ![i] =
                [phase |-> IF c.handler = NoHandler THEN "done" ELSE "handler",
                 method |-> r.method, path |-> r.path, auth |-> r.auth,
                 body |-> r.body, bodyId |-> r.bodyId, ifMatch |-> r.ifMatch,
                 ctx |-> c, status |-> c.status, etag |-> 0, changed |-> FALSE,
                 fresh |-> r.ifMatch # 0 /\ TargetDoc(store, c).etag = r.ifMatch,
                 storeCalls |-> 0]]
    /\ UNCHANGED <<config, router, store, tomb, consumed, startVars>>

\* the route's handler runs: one store operation under the store lock
RunHandler(i) ==
    /\ req[i].phase = "handler"
    /\ LET r == req[i]
           h == r.ctx.handler
           static == h \in StaticHandlers
           res == IF static THEN Result(store, 200, 0) ELSE Invoke(h, store, r.ctx, r)
       IN  /\ res.store.etag <= MaxEtag
           /\ store' = res.store
           /\ req' = [req EXCEPT ![i].phase = "done", ![i].status = res.status,
                                 ![i].etag = res.etag,
                                 ![i].changed = (res.store # store),
                                 ![i].storeCalls = IF static THEN 0 ELSE 1]
    /\ UNCHANGED <<config, router, startVars>>

\* history of a handler's step: what a database delete took with it and has not been
\* created again, and how many conditional writes succeeded per If-Match value
Record(i) ==
    LET r == req[i]
        h == r.ctx.handler
        status == req'[i].status
    IN  /\ tomb' = IF h = "DeleteDatabase" /\ status = 204
                   THEN tomb \cup {e \in Entities :
                                     Under(e, Param(r.ctx, ":databaseId")) /\ Exists(store, e)}
                   ELSE IF status = 201 THEN tomb \ {Created(h, r.ctx, r)}
                   ELSE tomb
        /\ consumed' = IF h \in {"ReplaceDocument", "PatchDocument"}
                          /\ r.ifMatch # 0 /\ status = 200
                       THEN [consumed EXCEPT ![r.ifMatch] = IF @ < 2 THEN @ + 1 ELSE 2]
                       ELSE consumed

\* the response is written and the slot is free again
Complete(i) ==
    /\ req[i].phase = "done"
    /\ req' = [req EXCEPT ![i] = IdleRequest]
    /\ UNCHANGED <<config, router, store, tomb, consumed, startVars>>

----------------------------------------------------------------------------
(* ApiServer.Start: the listener, the shutdown goroutine, the serve        *)
(* goroutine and the select on errChan and the 50 ms timer                 *)

\* errChan := make(chan error, 1)
ErrChanCap == 1

\* the branch of lines 113-127 taken when either path is set
SelectMode_EitherPath(cfg) ==
    IF cfg.DisableTls THEN "http"
    ELSE IF cfg.TLS_CertificatePath # "" \/ cfg.TLS_CertificateKey # "" THEN "https-files"
    ELSE "https-builtin"

\* the branch of lines 113-127 the configuration selects
SelectMode(cfg) ==
    IF cfg.DisableTls THEN "http"
    ELSE IF cfg.TLS_CertificatePath # "" /\ cfg.TLS_CertificateKey # "" THEN "https-files"
    ELSE "https-builtin"

\* lines 91-136 of Start: mark the server active, build the http.Server and errChan,
\* start both goroutines and enter the select (which creates the 50 ms timer)
StartBegin ==
    /\ startPc = "init"
    /\ isActive' = TRUE
    /\ errChan' = << >>
    /\ shutPc' = "recv"
    /\ servePc' = "choose"
    /\ startPc' = "select"
    /\ UNCHANGED <<config, router, httpVars, startRet, branch, errPending, timerFired,
                   serveErr, listenMode, tlsConfigSet, listener, inShutdown, inFlight,
                   hung, stopServer, stopsSent, stopsReceived, onServerShutdown, notified>>

\* 50 ms pass: the channel of time.After becomes ready
TimerFires ==
    /\ startPc = "select"
    /\ ~timerFired
    /\ timerFired' = TRUE
    /\ UNCHANGED <<config, router, httpVars, isActive, startPc, startRet, branch,
                   errPending, errChan, shutPc, servePc, serveErr, listenMode,
                   tlsConfigSet, listener, inShutdown, inFlight, hung, stopServer,
                   stopsSent, stopsReceived, onServerShutdown, notified>>

\* lines 139-140: the select takes the errChan case and Start returns what it received
SelectErrChan ==
    /\ startPc = "select"
    /\ errChan # << >>
    /\ startRet' = Head(errChan)
    /\ errChan' = Tail(errChan)
    /\ branch' = "errChan"
    /\ startPc' = "returned"
    /\ UNCHANGED <<config, router, httpVars, isActive, errPending, timerFired, shutPc,
                   servePc, serveErr, listenMode, tlsConfigSet, listener, inShutdown,
                   inFlight, hung, stopServer, stopsSent, stopsReceived,
                   onServerShutdown, notified>>

\* lines 141-142: the select takes the timer case and Start returns nil; when both
\* cases are ready the select takes either
SelectTimer ==
    /\ startPc = "select"
    /\ timerFired
    /\ startRet' = "nil"
    /\ branch' = "timer"
    /\ errPending' = (errChan # << >> /\ Head(errChan) = "error")
    /\ startPc' = "returned"
    /\ UNCHANGED <<config, router, httpVars, isActive, errChan, timerFired, shutPc,
                   servePc, serveErr, listenMode, tlsConfigSet, listener, inShutdown,
                   inFlight, hung, stopServer, stopsSent, stopsReceived,
                   onServerShutdown, notified>>

\* line 102: the shutdown goroutine receives a stop signal
ShutReceive ==
    /\ shutPc = "recv"
    /\ stopServer > 0
    /\ stopServer' = stopServer - 1
    /\ stopsReceived' = stopsReceived + 1
    /\ shutPc' = "shutdown"
    /\ UNCHANGED <<config, router, httpVars, isActive, startPc, startRet, branch,
                   errPending, errChan, timerFired, servePc, serveErr, listenMode,
                   tlsConfigSet, listener, inShutdown, inFlight, hung, stopsSent,
                   onServerShutdown, notified>>

\* line 104, server.Shutdown entered: the server is marked as shutting down and
\* its listener is closed
ShutdownBegin ==
    /\ shutPc = "shutdown"
    /\ inShutdown' = TRUE
    /\ listener' = IF listener = "open" THEN "closed" ELSE listener
    /\ shutPc' = "draining"
    /\ UNCHANGED <<config, router, httpVars, isActive, startPc, startRet, branch,
                   errPending, errChan, timerFired, servePc, serveErr, listenMode,
                   tlsConfigSet, inFlight, hung, stopServer, stopsSent, stopsReceived,
                   onServerShutdown, notified>>

\* line 104, server.Shutdown returns: under context.TODO(), which never expires,
\* only once no connection has a handler in flight
ShutdownReturn ==
    /\ shutPc = "draining"
    /\ inFlight = 0
    /\ shutPc' = "send"
    /\ UNCHANGED <<config, router, httpVars, isActive, startPc, startRet, branch,
                   errPending, errChan, timerFired, servePc, serveErr, listenMode,
                   tlsConfigSet, listener, inShutdown, inFlight, hung, stopServer,
                   stopsSent, stopsReceived, onServerShutdown, notified>>

\* line 108: the completion notification is sent
ShutNotify ==
    /\ shutPc = "send"
    /\ onServerShutdown' = onServerShutdown + 1
    /\ shutPc' = "done"
    /\ UNCHANGED <<config, router, httpVars, isActive, startPc, startRet, branch,
                   errPending, errChan, timerFired, servePc, serveErr, listenMode,
                   tlsConfigSet, listener, inShutdown, inFlight, hung, stopServer,
                   stopsSent, stopsReceived, notified>>

\* lines 112-127: the serve goroutine picks the listener mode and calls it; the call
\* returns at once when the server is already shutting down or the listener cannot
\* be set up, and serves otherwise
ServeListen(ok) ==
    /\ servePc = "choose"
    /\ listenMode' = SelectMode(config)
    /\ tlsConfigSet' = (SelectMode(config) = "https-builtin")
    /\ IF inShutdown
       THEN serveErr' = "ErrServerClosed" /\ servePc' = "returned" /\ UNCHANGED listener
       ELSE IF ok
       THEN listener' = "open" /\ servePc' = "serving" /\ UNCHANGED serveErr
       ELSE serveErr' = "error" /\ servePc' = "returned" /\ UNCHANGED listener
    /\ UNCHANGED <<config, router, httpVars, isActive, startPc, startRet, branch,
                   errPending, errChan, timerFired, shutPc, inShutdown, inFlight, hung,
                   stopServer, stopsSent, stopsReceived, onServerShutdown, notified>>

\* the listener call returns http.ErrServerClosed once Shutdown has closed the listener
ServeClosed ==
    /\ servePc = "serving"
    /\ inShutdown
    /\ serveErr' = "ErrServerClosed"
    /\ servePc' = "returned"
    /\ UNCHANGED <<config, router, httpVars, isActive, startPc, startRet, branch,
                   errPending, errChan, timerFired, shutPc, listenMode, tlsConfigSet,
                   listener, inShutdown, inFlight, hung, stopServer, stopsSent,
                   stopsReceived, onServerShutdown, notified>>

\* the listener call returns an error of its own while serving
ServeFails ==
    /\ servePc = "serving"
    /\ ~inShutdown
    /\ serveErr' = "error"
    /\ listener' = "closed"
    /\ servePc' = "returned"
    /\ UNCHANGED <<config, router, httpVars, isActive, startPc, startRet, branch,
                   errPending, errChan, timerFired, shutPc, listenMode, tlsConfigSet,
                   inShutdown, inFlight, hung, stopServer, stopsSent, stopsReceived,
                   onServerShutdown, notified>>

\* a send on an unbuffered errChan proceeds only while Start waits in its select
CanSend_Unbuffered == startPc = "select"

\* a send on errChan proceeds when the buffer has room
CanSend == Len(errChan) < ErrChanCap

\* lines 129-134: the error, or nil for no error and for ErrServerClosed, goes to errChan
ServeReport ==
    /\ servePc = "returned"
    /\ CanSend
    /\ errChan' = Append(errChan, IF serveErr = "error" THEN "error" ELSE "nil")
    /\ servePc' = "reported"
    /\ UNCHANGED <<config, router, httpVars, isActive, startPc, startRet, branch,
                   errPending, timerFired, shutPc, serveErr, listenMode, tlsConfigSet,
                   listener, inShutdown, inFlight, hung, stopServer, stopsSent,
                   stopsReceived, onServerShutdown, notified>>

\* line 135
ServeInactive ==
    /\ servePc = "reported"
    /\ isActive' = FALSE
    /\ servePc' = "done"
    /\ UNCHANGED <<config, router, httpVars, startPc, startRet, branch, errPending,
                   errChan, timerFired, shutPc, serveErr, listenMode, tlsConfigSet,
                   listener, inShutdown, inFlight, hung, stopServer, stopsSent,
                   stopsReceived, onServerShutdown, notified>>

\* a connection's request reaches its handler
ConnOpen ==
    /\ listener = "open"
    /\ inFlight < MaxConns
    /\ inFlight' = inFlight + 1
    /\ UNCHANGED <<config, router, httpVars, isActive, startPc, startRet, branch,
                   errPending, errChan, timerFired, shutPc, servePc, serveErr,
                   listenMode, tlsConfigSet, listener, inShutdown, hung, stopServer,
                   stopsSent, stopsReceived, onServerShutdown, notified>>

\* a handler finishes and its connection becomes idle
ConnFinish ==
    /\ inFlight > hung
    /\ inFlight' = inFlight - 1
    /\ UNCHANGED <<config, router, httpVars, isActive, startPc, startRet, branch,
                   errPending, errChan, timerFired, shutPc, servePc, serveErr,
                   listenMode, tlsConfigSet, listener, inShutdown, hung, stopServer,
                   stopsSent, stopsReceived, onServerShutdown, notified>>

\* a handler in flight turns out never to finish (its client stalls)
ConnHangs ==
    /\ hung < inFlight
    /\ hung' = hung + 1
    /\ UNCHANGED <<config, router, httpVars, isActive, startPc, startRet, branch,
                   errPending, errChan, timerFired, shutPc, servePc, serveErr,
                   listenMode, tlsConfigSet, listener, inShutdown, inFlight, stopServer,
                   stopsSent, stopsReceived, onServerShutdown, notified>>

\* the supervisor sends a stop signal on s.stopServer
SendStop ==
    /\ stopsSent < MaxStops
    /\ stopsSent' = stopsSent + 1
    /\ stopServer' = stopServer + 1
    /\ UNCHANGED <<config, router, httpVars, isActive, startPc, startRet, branch,
                   errPending, errChan, timerFired, shutPc, servePc, serveErr,
                   listenMode, tlsConfigSet, listener, inShutdown, inFlight, hung,
                   stopsReceived, onServerShutdown, notified>>

\* the supervisor receives the completion notification from s.onServerShutdown
SupervisorReceive ==
    /\ onServerShutdown > 0
    /\ onServerShutdown' = onServerShutdown - 1
    /\ notified' = notified + 1
    /\ UNCHANGED <<config, router, httpVars, isActive, startPc, startRet, branch,
                   errPending, errChan, timerFired, shutPc, servePc, serveErr,
                   listenMode, tlsConfigSet, listener, inShutdown, inFlight, hung,
                   stopServer, stopsSent, stopsReceived>>

----------------------------------------------------------------------------
(* Specifications *)

Configs ==
    [LogLevel : {"debug", "info"}, AccountKey : {"", "account-key"},
     DisableTls : BOOLEAN, TLS_CertificatePath : {"", "cert.pem"},
     TLS_CertificateKey : {"", "key.pem"}]

DefaultTls(cfg) ==
    ~cfg.DisableTls /\ cfg.TLS_CertificatePath = "" /\ cfg.TLS_CertificateKey = ""

\* the server before Start is called
InitStart ==
    /\ isActive = FALSE
    /\ startPc = "init"
    /\ startRet = "none"
    /\ branch = "none"
    /\ errPending = FALSE
    /\ errChan = << >>
    /\ timerFired = FALSE
    /\ shutPc = "none"
    /\ servePc = "none"
    /\ serveErr = "none"
    /\ listenMode = "none"
    /\ tlsConfigSet = FALSE
    /\ listener = "none"
    /\ inShutdown = FALSE
    /\ inFlight = 0
    /\ hung = 0
    /\ stopServer = 0
    /\ stopsSent = 0
    /\ stopsReceived = 0
    /\ onServerShutdown = 0
    /\ notified = 0

\* an empty store behind a router built for any logging and account-key setting
Init ==
    /\ config \in {cfg \in Configs : DefaultTls(cfg)}
    /\ router = CreateRouter(config)
    /\ req = [i \in Slots |-> IdleRequest]
    /\ store = EmptyStore
    /\ tomb = {}
    /\ consumed = [e \in 1..MaxEtag |-> 0]
    /\ InitStart

\* requests of every kind, served one at a time
Next ==
    \/ \E r \in AllRequests : Arrive(1, r)
    \/ RunHandler(1) /\ UNCHANGED <<tomb, consumed>>
    \/ Complete(1)

Spec == Init /\ [][Next]_vars

\* authorized requests on the registered paths, served one at a time
NextStore ==
    \/ \E r \in StoreRequests : Arrive(1, r)
    \/ RunHandler(1) /\ Record(1)
    \/ Complete(1)

InitStore ==
    /\ config \in {cfg \in Configs :
                      DefaultTls(cfg) /\ cfg.LogLevel = "info" /\ cfg.AccountKey = ""}
    /\ router = CreateRouter(config)
    /\ req = [i \in Slots |-> IdleRequest]
    /\ store = EmptyStore
    /\ tomb = {}
    /\ consumed = [e \in 1..MaxEtag |-> 0]
    /\ InitStart

SpecStore == InitStore /\ [][NextStore]_vars

\* a store that holds one document, written once
SeededStore ==
    [EmptyStore EXCEPT
        !.dbs = DbIds,
        !.colls = DbIds \X CollIds,
        !.docs = [k \in DocKeys |-> [etag |-> 1, body |-> "a"]],
        !.etag = 1]

InitWrites ==
    /\ config \in {cfg \in Configs :
                      DefaultTls(cfg) /\ cfg.LogLevel = "info" /\ cfg.AccountKey = ""}
    /\ router = CreateRouter(config)
    /\ req = [i \in Slots |-> IdleRequest]
    /\ store = SeededStore
    /\ tomb = {}
    /\ consumed = [e \in 1..MaxEtag |-> 0]
    /\ InitStart

\* conditional replaces of one document arrive on every slot and run concurrently
NextWrites ==
    \E i \in Slots :
        \/ \E r \in DocumentWrites : Arrive(i, r)
        \/ RunHandler(i) /\ Record(i)
        \/ Complete(i)

SpecWrites == InitWrites /\ [][NextWrites]_vars

InitServer ==
    /\ config \in {cfg \in Configs : cfg.LogLevel = "info" /\ cfg.AccountKey = ""}
    /\ router = CreateRouter(config)
    /\ req = [i \in Slots |-> IdleRequest]
    /\ store = EmptyStore
    /\ tomb = {}
    /\ consumed = [e \in 1..MaxEtag |-> 0]
    /\ InitStart

NextServer ==
    \/ StartBegin
    \/ TimerFires
    \/ SelectErrChan
    \/ SelectTimer
    \/ ShutReceive
    \/ ShutdownBegin
    \/ ShutdownReturn
    \/ ShutNotify
    \/ \E ok \in BOOLEAN : ServeListen(ok)
    \/ ServeClosed
    \/ ServeFails
    \/ ServeReport
    \/ ServeInactive
    \/ ConnOpen
    \/ ConnFinish
    \/ ConnHangs
    \/ SendStop
    \/ SupervisorReceive

SpecServer == InitServer /\ [][NextServer]_vars

\* the goroutines are scheduled, the timer fires, handlers that can finish do, and
\* the supervisor takes the notification; nothing makes a stalled handler finish
FairSpecServer ==
    /\ SpecServer
    /\ WF_vars(StartBegin)
    /\ WF_vars(TimerFires)
    /\ WF_vars(SelectErrChan)
    /\ WF_vars(SelectTimer)
    /\ WF_vars(ShutReceive)
    /\ WF_vars(ShutdownBegin)
    /\ WF_vars(ShutdownReturn)
    /\ WF_vars(ShutNotify)
    /\ WF_vars(\E ok \in BOOLEAN : ServeListen(ok))
    /\ WF_vars(ServeClosed)
    /\ WF_vars(ServeReport)
    /\ WF_vars(ServeInactive)
    /\ WF_vars(ConnFinish)
    /\ WF_vars(SupervisorReceive)

----------------------------------------------------------------------------
(* Properties of the router *)

Registrations == Range(RouteRegistrations \o ExplorerRegistrations)

\* the method and path name a registered route
IsRoute(method, path) ==
    \E g \in Registrations : g.method = method /\ SegMatch(g.tmpl, path)

BadAuth(r) == r.phase # "idle" /\ ~AuthOk(config, r.auth)

\* C1: a request whose Authorization value is neither the configured account key nor
\* the emulator key never reaches a route handler and makes no store call, on any
\* registered route (with or without a trailing slash) it is answered 401, and a
\* handler is only ever reached right after Authentication has run.
C1_AuthBeforeHandler ==
    \A i \in Slots :
        LET r == req[i]
            canon == IF HasTrailingSlash(r.path) THEN StripSlash(r.path) ELSE r.path
        IN  /\ BadAuth(r) =>
                /\ r.ctx.handler = NoHandler
                /\ r.storeCalls = 0
                /\ r.phase = "done"
                /\ IsRoute(r.method, canon) => r.status = 401
            /\ r.ctx.handler # NoHandler =>
                /\ AuthOk(config, r.auth)
                /\ r.ctx.ran # << >>
                /\ r.ctx.ran[Len(r.ctx.ran)] = "Authentication"

\* an unauthorized GET /cosmium/export/ was rewritten, re-dispatched and answered 401
C1_Witness ==
    \E i \in Slots :
        /\ BadAuth(req[i])
        /\ req[i].path = <<"cosmium", "export", "">>
        /\ req[i].ctx.rewritten
        /\ req[i].status = 401

\* a path template with its variables made anonymous
Shape(tmpl) == [k \in 1..Len(tmpl) |-> IF IsParam(tmpl[k]) THEN ":" ELSE tmpl[k]]

Coll == <<"dbs", ":", "colls", ":">>

\* the route list of the external-interfaces section
ListedRoutes ==
    {<<"GET", << >> >>, <<"GET", <<"offers">> >>, <<"GET", <<"cosmium", "export">> >>}
        \cup ({"POST", "GET"} \X {<<"dbs">>})
        \cup ({"GET", "DELETE"} \X {<<"dbs", ":">>})
        \cup ({"POST", "GET"} \X {<<"dbs", ":", "colls">>})
        \cup ({"GET", "DELETE"} \X {Coll})
        \cup {<<"GET", Coll \o <<"pkranges">> >>}
        \cup ({"POST", "GET"} \X {Coll \o <<"docs">>})
        \cup ({"GET", "PUT", "PATCH", "DELETE"} \X {Coll \o <<"docs", ":">>})
        \cup ({"POST", "GET"} \X {Coll \o <<k>> : k \in ScriptKinds})
        \cup ({"GET", "PUT", "DELETE"} \X {Coll \o <<k, ":">> : k \in ScriptKinds})

ApiRoutes(engine) ==
    {<<r.method, Shape(r.tmpl)>> :
        r \in {x \in UNION {engine.trees[m] : m \in Methods} : x.handler # "Explorer"}}

Listed(method, path) ==
    \E l \in ListedRoutes :
        /\ l[1] = method
        /\ Len(l[2]) = Len(path)
        /\ \A k \in 1..Len(path) : IF l[2][k] = ":" THEN path[k] # "" ELSE l[2][k] = path[k]

\* C2: the routes that reach an API handler are exactly the listed ones: the engine's
\* table is the list, a request reaches an API handler only on a listed method and
\* path, and every authorized request on a listed method and path reaches one.
C2_RoutesAreTheListedOnes ==
    /\ ApiRoutes(router) = ListedRoutes
    /\ \A i \in Slots :
          LET r == req[i]
          IN  r.phase # "idle" =>
                /\ r.ctx.handler \notin {NoHandler, "Explorer"} =>
                      /\ <<r.method, Shape(r.ctx.tmpl)>> \in ListedRoutes
                      /\ Listed(r.method, r.ctx.path)
                /\ AuthOk(config, r.auth) /\ Listed(r.method, r.path) =>
                      r.ctx.handler \notin {NoHandler, "Explorer"}
                /\ ~Listed(r.method, r.ctx.path) => r.ctx.handler \in {NoHandler, "Explorer"}

\* an authorized PUT /dbs/d1 found no route: 404 and no handler
C2_Witness ==
    \E i \in Slots :
        /\ req[i].phase = "done"
        /\ req[i].method = "PUT"
        /\ req[i].path = <<"dbs", "d1">>
        /\ AuthOk(config, req[i].auth)
        /\ req[i].ctx.handler = NoHandler
        /\ req[i].status = 404

\* C3: a request for a registered route plus a trailing slash is not redirected and
\* not matched as it is; StripTrailingSlashes rewrites it to the canonical path and
\* it ends as the request without the slash does: same handler, same status before
\* the handler, Authentication included.
C3_TrailingSlashRewritten ==
    \A i \in Slots :
        LET r == req[i]
            plain == ServeHTTP(router, config, r.method, StripSlash(r.path), r.auth)
        IN  (r.phase # "idle" /\ HasTrailingSlash(r.path)
                /\ IsRoute(r.method, StripSlash(r.path))) =>
                /\ ~r.ctx.redirected
                /\ r.status \notin {301, 307}
                /\ ~r.ctx.matchedAsIs
                /\ r.ctx.rewritten
                /\ r.ctx.path = StripSlash(r.path)
                /\ r.ctx.handler = plain.handler
                /\ r.ctx.tmpl = plain.tmpl
                /\ r.ctx.handler = NoHandler => r.status = plain.status
                /\ AuthOk(config, r.auth) <=> r.ctx.handler # NoHandler

\* an authorized PUT on a document's path plus "/" ran ReplaceDocument against the store
C3_Witness ==
    \E i \in Slots :
        /\ req[i].phase = "done"
        /\ req[i].method = "PUT"
        /\ req[i].path = DocPath \o <<"">>
        /\ req[i].ctx.handler = "ReplaceDocument"
        /\ req[i].storeCalls = 1

----------------------------------------------------------------------------
(* Properties of the store *)

\* the paths a GET reads an entity by: itself and, for a parent, its listings
GetPaths(e) ==
    LET coll == <<"dbs", e[2], "colls", e[3]>>
    IN  CASE e[1] = "dbs" -> {<<"dbs", e[2]>>, <<"dbs", e[2], "colls">>}
          [] e[1] = "colls" ->
                {coll, coll \o <<"pkranges">>, coll \o <<"docs">>}
                    \cup {coll \o <<k>> : k \in ScriptKinds}
          [] OTHER -> {coll \o <<e[1], e[4]>>}

\* the status an authorized GET of the path is answered with in the current state
GetStatus(path) ==
    LET c == ServeHTTP(router, config, "GET", path, EmulatorKey)
    IN  IF c.handler = NoHandler THEN c.status
        ELSE Invoke(c.handler, store, c, IdleRequest).status

\* C8: once DELETE /dbs/:db has succeeded, no GET under the database answers 200 for
\* an entity the delete took with it, whatever happens afterwards, until that entity
\* itself is created again; creating the database again brings nothing back.
C8_CascadeComplete ==
    /\ \A e \in tomb : \A p \in GetPaths(e) : GetStatus(p) # 200
    /\ \A i \in Slots :
          (req[i].phase = "done" /\ req[i].method = "GET" /\ req[i].status = 200) =>
              \A e \in tomb : req[i].ctx.path \notin GetPaths(e)

\* the database was deleted with a collection in it and created again, and a GET of
\* the old collection is answered 404
C8_Witness ==
    /\ CollEntity("d1", "c1") \in tomb
    /\ "d1" \in store.dbs
    /\ req[1].phase = "done"
    /\ req[1].method = "GET"
    /\ req[1].path = <<"dbs", "d1", "colls", "c1">>
    /\ req[1].status = 404

DocKey == <<"d1", "c1", "x">>

Conditional(r) == r.phase = "done" /\ r.ifMatch # 0

\* C7: of the conditional writes to a document that carry one If-Match value, at most
\* one ever succeeds; it answers 200 with a new _etag; each of the others answers 412
\* and leaves the stored document as it was; and when the value was the document's
\* _etag as a failed write arrived, exactly one write carrying it did succeed.
C7_OneConditionalWriteWins ==
    /\ \A e \in 1..MaxEtag : consumed[e] <= 1
    /\ \A i \in Slots :
          LET r == req[i]
          IN  Conditional(r) =>
                /\ r.status \in {200, 412}
                /\ r.status = 412 => ~r.changed
                /\ r.status = 412 /\ r.fresh => consumed[r.ifMatch] = 1
                /\ r.status = 200 =>
                      /\ r.changed
                      /\ r.etag > r.ifMatch
                      /\ consumed[r.ifMatch] = 1
                      /\ store.docs[DocKey].etag = r.etag => store.docs[DocKey].body = r.body

\* two PUTs arrived with the document's current _etag; one answered 200, the other
\* 412, and the document holds what the first wrote
C7_Witness ==
    \E i, j \in Slots :
        /\ Conditional(req[i]) /\ Conditional(req[j])
        /\ req[i].method = "PUT" /\ req[j].method = "PUT"
        /\ req[i].ifMatch = req[j].ifMatch
        /\ req[i].fresh /\ req[j].fresh
        /\ req[i].status = 200 /\ req[j].status = 412
        /\ req[i].body # req[j].body
        /\ store.docs[DocKey] = [etag |-> req[i].etag, body |-> req[i].body]

----------------------------------------------------------------------------
(* Properties of Start *)

\* C4: a stop signal the shutdown goroutine has received leads to its completion
\* notification reaching the supervisor.
C4_StopLeadsToNotification == (stopsReceived > 0) ~> (notified > 0)

\* C5: the drain is bounded: while Shutdown waits with a handler in flight that never
\* finishes, Shutdown can still return (by closing the connection by force).
C5_DrainIsBounded == (shutPc = "draining" /\ hung > 0) => ENABLED ShutdownReturn

\* C6: the listener mode is plain HTTP exactly when disable-tls is set, HTTPS with the
\* operator's files exactly when it is not and both paths are set, and HTTPS with the
\* built-in certificate (server.TLSConfig from the provider) in every other case.
C6_ListenerMode ==
    listenMode # "none" =>
        /\ listenMode \in {"http", "https-files", "https-builtin"}
        /\ listenMode = "http" <=> config.DisableTls
        /\ listenMode = "https-files" <=>
              /\ ~config.DisableTls
              /\ config.TLS_CertificatePath # ""
              /\ config.TLS_CertificateKey # ""
        /\ listenMode = "https-builtin" <=>
              /\ ~config.DisableTls
              /\ config.TLS_CertificatePath = "" \/ config.TLS_CertificateKey = ""
        /\ tlsConfigSet <=> listenMode = "https-builtin"

\* with only tls-cert set the listener runs on the built-in certificate
C6_Witness ==
    /\ listenMode = "https-builtin"
    /\ config.TLS_CertificatePath # ""
    /\ config.TLS_CertificateKey = ""
    /\ listener = "open"

\* C9 as stated: when Start returns through the timer branch, no start-up error had
\* been reported on errChan; a reported error is the one Start returns.
C9_ReportedErrorIsReturned == (startPc = "returned" /\ branch = "timer") => ~errPending

\* C9: Start returns once, through one branch of the select: what the serve goroutine
\* reported when the errChan branch is taken, nil when the timer branch is taken,
\* also when the listener fails later or when the error was already on errChan; and
\* the serve goroutine's send always finds room in errChan.
C9_StartReturnsOnce ==
    /\ startPc = "returned" <=> branch # "none"
    /\ startPc = "returned" <=> startRet # "none"
    /\ branch = "timer" => startRet = "nil" /\ timerFired
    /\ branch = "errChan" =>
          /\ servePc \in {"reported", "done"}
          /\ startRet = (IF serveErr = "error" THEN "error" ELSE "nil")
          /\ errChan = << >>
    /\ servePc = "returned" => CanSend
    /\ Len(errChan) <= ErrChanCap
    /\ errPending => branch = "timer" /\ startRet = "nil"

\* Start returned nil through the timer, the listener failed afterwards, and the serve
\* goroutine still sent the error and ran to its end
C9_Witness ==
    /\ startPc = "returned"
    /\ branch = "timer"
    /\ ~errPending
    /\ serveErr = "error"
    /\ errChan = <<"error">>
    /\ servePc = "done"

\* C10: when the supervisor has received the completion notification, isActive is false.
C10_NotifiedImpliesInactive == notified > 0 => ~isActive

====
